---- MODULE Spec2Model ----
(***************************************************************************)
(* Model of the CRM event handler: the webhook Gateway                     *)
(* (WebhookController.create), the Receipt store (WebhookReceiptService),  *)
(* the CRM provider, the BullMQ dispatch queue (QueueService), the worker  *)
(* and the event processor (processCRMWebhook) with its downstream         *)
(* dispatchers (DownstreamProvider).                                       *)
(*                                                                         *)
(* Text values (event, reference, deal status, job id) are sequences of    *)
(* one-character strings, so that concatenation and lower-casing are       *)
(* computed character by character as the code computes them.              *)
(***************************************************************************)
EXTENDS Integers, Sequences, FiniteSets, TLC

VARIABLES reqs, receipts, jobs, db

vars == <<reqs, receipts, jobs, db>>

-----------------------------------------------------------------------------
(* Bounds of the model *)

\* number of webhook deliveries the Gateway receives in one behaviour
MaxDeliveries == 2

\* number of attempts of the processor, over all jobs, that raise an error
MaxFaults == 5

-----------------------------------------------------------------------------
(* Text values *)

\* JavaScript undefined (an absent header or body field)
Undefined == <<"undefined">>

\* the empty string
Empty == <<>>

deal_created == <<"d","e","a","l","_","c","r","e","a","t","e","d">>

deal_updated == <<"d","e","a","l","_","u","p","d","a","t","e","d">>

\* an event type the processor has no case for
deal_deleted == <<"d","e","a","l","_","d","e","l","e","t","e","d">>

Qualified == <<"Q","u","a","l","i","f","i","e","d">>

Committed == <<"C","o","m","m","i","t","t","e","d">>

\* a deal status the processor has no case for (the match is case-sensitive)
qualified == <<"q","u","a","l","i","f","i","e","d">>

D1 == <<"D","-","1">>

Underscore == <<"_">>

\* String.prototype.toLocaleLowerCase on one character
LowerChar(c) ==
    CASE c = "Q" -> "q"
      [] c = "C" -> "c"
      [] c = "D" -> "d"
      [] OTHER -> c

\* String.prototype.toLocaleLowerCase
toLocaleLowerCase(s) == [i \in 1..Len(s) |-> LowerChar(s[i])]

\* JavaScript falsiness of a header or body value: !value
Falsy(v) == v = Undefined \/ v = Empty

-----------------------------------------------------------------------------
(* Configuration *)

\* serverConfig.auth.apiKey
ConfiguredApiKey == "secret"

\* enum WebhookStatus
PENDING == "pending"

PROCESSED == "processed"

FAILED == "failed"

\* WebhookReceiptService.providerInstances: the registered providers
providerInstances == {"crm"}

\* CRM_WEBHOOK_QUEUE_CONFIG.defaultJobOptions
CrmAttempts == 5

CrmBackoffDelay == 5000

CRM_WEBHOOK_QUEUE_CONFIG ==
    [attempts |-> CrmAttempts, backoffDelay |-> CrmBackoffDelay]

\* the defaults QueueService.enqueue puts before the caller's options
DefaultAttempts == 3

DefaultBackoffDelay == 2000

QueueDefaults ==
    [attempts |-> DefaultAttempts, backoffDelay |-> DefaultBackoffDelay]

\* the worker's concurrency option
Concurrency == 5

-----------------------------------------------------------------------------
(* Inputs *)

\* The deliveries the Gateway may receive: path parameter, x-api-key and
\* x-event headers, body.data.dealId and body.data.dealDetails.status.
Delivery(p, k, e, d, s) ==
    [provider |-> p, apiKey |-> k, event |-> e, dealId |-> d, status |-> s]

WellFormedDeliveries ==
    { Delivery("crm", ConfiguredApiKey, deal_created, D1, s) :
        s \in {Qualified, Committed, qualified, Undefined} }
    \cup { Delivery("crm", ConfiguredApiKey, deal_updated, D1, s) :
        s \in {Qualified, Committed} }
    \cup { Delivery("crm", ConfiguredApiKey, deal_deleted, D1, Qualified) }

DefectiveDeliveries ==
    { Delivery("crm", "wrong", deal_created, D1, Qualified),
      Delivery("crm", "wrong", Undefined, Undefined, Undefined),
      Delivery("brevo", ConfiguredApiKey, deal_created, D1, Qualified),
      Delivery("brevo", "wrong", Undefined, Undefined, Undefined),
      Delivery("crm", ConfiguredApiKey, Undefined, D1, Qualified),
      Delivery("crm", ConfiguredApiKey, deal_updated, Empty, Committed) }

Deliveries == WellFormedDeliveries \cup DefectiveDeliveries

Slots == 1..MaxDeliveries

\* positions in the queue: each delivery adds at most one job
JobSlots == 1..MaxDeliveries

NoJobId == Undefined

IdleRequest ==
    [pc |-> "idle", provider |-> "", apiKey |-> "", event |-> Undefined,
     dealId |-> Undefined, status |-> Undefined, webhook |-> 0,
     isNew |-> FALSE, wstatus |-> "", handled |-> FALSE,
     jobId |-> NoJobId, found |-> "", resp |-> 0, after |-> {}]

-----------------------------------------------------------------------------
(* Errors and the global error handler *)

\* an error object as SystemMiddlewares.errorHandler reads it; 0 stands for
\* a field that is not a number
ErrorObject(status, statusCode, responseStatus, code) ==
    [status |-> status, statusCode |-> statusCode,
     responseStatus |-> responseStatus, code |-> code]

\* new BadRequestError(): a SystemError whose code getter gives 400
BadRequestError == ErrorObject(0, 0, 0, 400)

\* a TypeError raised by the runtime: no numeric status field at all
TypeError == ErrorObject(0, 0, 0, 0)

\* SystemMiddlewares.errorHandler: the status code of the response
errorHandler(error) ==
    IF error.status # 0 THEN error.status
    ELSE IF error.statusCode # 0 THEN error.statusCode
    ELSE IF error.responseStatus # 0 THEN error.responseStatus
    ELSE IF error.code # 0 THEN error.code
    ELSE 500

Threw(error) == [threw |-> TRUE, error |-> error, value |-> Undefined]

Returned(value) == [threw |-> FALSE, error |-> TypeError, value |-> value]

-----------------------------------------------------------------------------
(* The CRM provider and the provider registry *)

\* a registry that hands out the CRM provider for every source
getProviderInstanceFallsBack(provider) == Returned(Empty)

\* WebhookReceiptService.getProviderInstance
getProviderInstance(provider) ==
    IF provider \notin providerInstances
    THEN Threw(BadRequestError)
    ELSE Returned(Empty)

\* a validation that accepts every key
validateWebhookRequestAcceptsAll(req) == TRUE

\* CRMProvider.validateWebhookRequest
validateWebhookRequest(req) ==
    IF req.apiKey # ConfiguredApiKey THEN FALSE ELSE TRUE

\* CRMProvider.getEventFromWebhookRequest
getEventFromWebhookRequest(req) ==
    IF Falsy(req.event) THEN Threw(BadRequestError) ELSE Returned(req.event)

\* an extraction that returns the reference without testing it
getReferenceUnchecked(req) == Returned(req.dealId)

\* CRMProvider.getReferenceFromWebhookRequest
getReferenceFromWebhookRequest(req) ==
    IF Falsy(req.dealId) THEN Threw(BadRequestError) ELSE Returned(req.dealId)

-----------------------------------------------------------------------------
(* The Receipt store *)

\* BaseService.findOne({provider, reference}): the _id (position) of the
\* first matching document in insertion order, 0 when there is none
findOne(store, provider, reference) ==
    LET matches == { k \in 1..Len(store) :
                        /\ store[k].provider = provider
                        /\ store[k].reference = reference }
    IN IF matches = {} THEN 0
       ELSE CHOOSE k \in matches : \A m \in matches : k <= m

\* the attributes WebhookReceiptService.createWebhook builds
ReceiptAttributes(provider, event, reference, req) ==
    [provider |-> provider, event |-> event, reference |-> reference,
     payloadStatus |-> req.status, status |-> PENDING]

\* BaseService.create: a new document is appended; nothing in the schema
\* (webhookReceiptSchema) rejects a second document for the same reference
create(store, attributes) == Append(store, attributes)

\* BaseService.updateById(id, {status})
updateById(store, id, status) == [store EXCEPT ![id].status = status]

-----------------------------------------------------------------------------
(* The dispatch queue *)

\* { ...opts, ...defaults }: the spread written the other way round
SpreadDefaultsLast(defaults, opts) ==
    [k \in (DOMAIN defaults) \cup (DOMAIN opts) |->
        IF k \in DOMAIN defaults THEN defaults[k] ELSE opts[k]]

\* { ...defaults, ...opts }: the caller's options override the defaults
SpreadOptions(defaults, opts) ==
    [k \in (DOMAIN defaults) \cup (DOMAIN opts) |->
        IF k \in DOMAIN opts THEN opts[k] ELSE defaults[k]]

\* the jobId enqueueCRMWebhookJob computes from the job data
JobIdOf(data) ==
    data.event \o Underscore \o data.reference \o Underscore
        \o toLocaleLowerCase(data.status)

\* the job queue.add creates
NewJob(id, data, opts) ==
    [id |-> id, event |-> data.event, reference |-> data.reference,
     status |-> data.status, attempts |-> opts.attempts,
     backoffDelay |-> opts.backoffDelay, state |-> "waiting",
     attemptsMade |-> 0, delays |-> <<>>, last |-> "none", calls |-> <<>>]

\* a deduplication that looks only at the jobs still to be run
HasJobPending(q, id) ==
    \E k \in 1..Len(q) :
        q[k].id = id /\ q[k].state \in {"waiting", "active", "delayed"}

HasJob(q, id) == \E k \in 1..Len(q) : q[k].id = id

\* the state of the job with the given id, "none" when the queue has none
JobStateOf(q, id) ==
    IF HasJob(q, id)
    THEN q[CHOOSE k \in 1..Len(q) : q[k].id = id].state
    ELSE "none"

\* Queue.add without a custom jobId: every call adds a job
QueueAddAlways(q, job) == Append(q, job)

\* Queue.add with a custom jobId: when a job with that id is in the queue
\* (in any state) no job is added and the existing one is returned
QueueAdd(q, job) == IF HasJob(q, job.id) THEN q ELSE Append(q, job)

\* an enqueue that ignores the jobId when it adds
enqueueWithoutDedup(q, data, opts) ==
    Append(q, NewJob(opts.jobId, data, SpreadOptions(QueueDefaults, opts)))

\* QueueService.enqueue: the queue after queue.add
enqueue(q, data, opts) ==
    QueueAdd(q, NewJob(opts.jobId, data,
                       SpreadOptions(QueueDefaults, opts)))

\* the options enqueueCRMWebhookJob passes
CrmJobOptions(data) ==
    SpreadOptions([jobId |-> JobIdOf(data)], CRM_WEBHOOK_QUEUE_CONFIG)

\* an enqueue that passes no jobId: the queue numbers the jobs itself
enqueueCRMWebhookJobCounterId(q, data) ==
    LET id == [n \in 1..(Len(q) + 1) |-> "#"]
    IN IF data.status = Undefined
       THEN [threw |-> TRUE, jobs |-> q, jobId |-> NoJobId]
       ELSE [threw |-> FALSE,
             jobs |-> Append(q, NewJob(id, data, CRM_WEBHOOK_QUEUE_CONFIG)),
             jobId |-> id]

\* an enqueue that tolerates an absent status (status?.toLocaleLowerCase())
enqueueCRMWebhookJobLenient(q, data) ==
    [threw |-> FALSE, jobs |-> enqueue(q, data, CrmJobOptions(data)),
     jobId |-> JobIdOf(data)]

\* enqueueCRMWebhookJob: reading status.toLocaleLowerCase of an absent
\* status raises a TypeError before the queue is reached
enqueueCRMWebhookJob(q, data) ==
    IF data.status = Undefined
    THEN [threw |-> TRUE, jobs |-> q, jobId |-> NoJobId]
    ELSE [threw |-> FALSE, jobs |-> enqueue(q, data, CrmJobOptions(data)),
          jobId |-> JobIdOf(data)]

\* the job data CRMProvider.handleWebhookRequest takes from the receipt
JobDataOf(receipt) ==
    [reference |-> receipt.reference, event |-> receipt.event,
     status |-> receipt.payloadStatus]

-----------------------------------------------------------------------------
(* The event processor and the downstream dispatchers *)

\* the outcome of a call: whether it threw, and the dispatcher calls it
\* issued, in order, each with whether the downstream service answered
Outcome(threw, calls) == [threw |-> threw, calls |-> calls]

Call(dispatcher, ok) == [dispatcher |-> dispatcher, ok |-> ok]

\* a wrapper whose catch block rethrows the failure of the call
sendMetaConversionEventRethrows(metaFails) ==
    Outcome(metaFails, <<Call("meta", ~metaFails)>>)

\* DownstreamProvider.sendMetaConversionEvent: the failure of
\* MetaCAPIProvider.sendConversionEvent is caught and logged
sendMetaConversionEvent(metaFails) ==
    Outcome(FALSE, <<Call("meta", ~metaFails)>>)

\* DownstreamProvider.sendPropertyEmail: the failure of
\* BrevoProvider.sendPropertyDetailsEmail is caught and logged
sendPropertyEmail(brevoFails) ==
    Outcome(FALSE, <<Call("brevo", ~brevoFails)>>)

\* a Qualified mapping that also sends the property email
processQualifiedDealAlsoEmails(metaFails) ==
    LET first == sendMetaConversionEvent(metaFails)
        second == sendPropertyEmail(FALSE)
    IN Outcome(FALSE, first.calls \o second.calls)

\* DownstreamProvider.processQualifiedDeal: rethrows what the call throws
processQualifiedDeal(metaFails) == sendMetaConversionEvent(metaFails)

\* a Committed mapping that sends the email before the conversion event
processCommittedDealEmailFirst(metaFails, brevoFails) ==
    LET first == sendPropertyEmail(brevoFails)
        second == sendMetaConversionEvent(metaFails)
    IN Outcome(FALSE, first.calls \o second.calls)

\* DownstreamProvider.processCommittedDeal: the two calls in sequence inside
\* one try block, rethrowing what either throws
processCommittedDeal(metaFails, brevoFails) ==
    LET first == sendMetaConversionEvent(metaFails)
    IN IF first.threw THEN first
       ELSE LET second == sendPropertyEmail(brevoFails)
            IN Outcome(second.threw, first.calls \o second.calls)

\* a handler whose default branch rejects an unknown deal status
handleDealCreatedEventRejectsUnknown(status, metaFails, brevoFails) ==
    CASE status = Qualified -> processQualifiedDeal(metaFails)
      [] status = Committed -> processCommittedDeal(metaFails, brevoFails)
      [] OTHER -> Outcome(TRUE, <<>>)

\* handleDealCreatedEvent: switch on payload.data.dealDetails.status
handleDealCreatedEvent(status, metaFails, brevoFails) ==
    CASE status = Qualified -> processQualifiedDeal(metaFails)
      [] status = Committed -> processCommittedDeal(metaFails, brevoFails)
      [] OTHER -> Outcome(FALSE, <<>>)

\* a handler of updates that only logs the new status
handleDealUpdatedEventLogsOnly(status, metaFails, brevoFails) ==
    Outcome(FALSE, <<>>)

\* handleDealUpdatedEvent: switch on payload.data.dealDetails.status
handleDealUpdatedEvent(status, metaFails, brevoFails) ==
    CASE status = Qualified -> processQualifiedDeal(metaFails)
      [] status = Committed -> processCommittedDeal(metaFails, brevoFails)
      [] OTHER -> Outcome(FALSE, <<>>)

\* processCRMWebhook: switch on the event; an error raised inside the try
\* block (fault: one that no dispatcher wrapper catches) is rethrown
processCRMWebhook(job, fault, metaFails, brevoFails) ==
    IF fault THEN Outcome(TRUE, <<>>)
    ELSE CASE job.event = deal_created ->
                handleDealCreatedEvent(job.status, metaFails, brevoFails)
           [] job.event = deal_updated ->
                handleDealUpdatedEvent(job.status, metaFails, brevoFails)
           [] OTHER -> Outcome(FALSE, <<>>)

RECURSIVE Pow2(_)
Pow2(n) == IF n = 0 THEN 1 ELSE 2 * Pow2(n - 1)

\* BullMQ's exponential backoff: 2 ^ (attemptsMade - 1) * delay
Backoff(job, attemptsMade) == Pow2(attemptsMade - 1) * job.backoffDelay

\* the job after one attempt of the processor has ended: completed, or
\* delayed for a retry while attempts remain, or failed for good
AfterAttempt(job, fault, outcome) ==
    LET made == job.attemptsMade + 1
        ran == [job EXCEPT !.attemptsMade = made,
                           !.last = IF fault THEN "fault" ELSE "ran",
                           !.calls = outcome.calls]
    IN IF ~outcome.threw THEN [ran EXCEPT !.state = "completed"]
       ELSE IF made < job.attempts
            THEN [ran EXCEPT !.state = "delayed",
                             !.delays = Append(job.delays, Backoff(job, made))]
            ELSE [ran EXCEPT !.state = "failed"]

ActiveJobs(q) == { k \in 1..Len(q) : q[k].state = "active" }

RECURSIVE FaultsIn(_, _)
FaultsIn(q, n) ==
    IF n = 0 THEN 0
    ELSE FaultsIn(q, n - 1) + q[n].attemptsMade
            - (IF q[n].state = "completed" THEN 1 ELSE 0)

\* the attempts so far that ended with an error
TotalFaults(q) == FaultsIn(q, Len(q))

-----------------------------------------------------------------------------
(* The Gateway: WebhookController.create, one action per resumption *)

Respond(r, code) == [r EXCEPT !.pc = "done", !.resp = code]

\* a controller that acknowledges an invalid request with 200
ReceivedAcksInvalid(r) ==
    LET instance == getProviderInstance(r.provider)
        event == getEventFromWebhookRequest(r)
        reference == getReferenceFromWebhookRequest(r)
    IN IF instance.threw THEN Respond(r, errorHandler(instance.error))
       ELSE IF ~validateWebhookRequest(r) THEN Respond(r, 200)
       ELSE IF event.threw THEN Respond(r, errorHandler(event.error))
       ELSE IF reference.threw THEN Respond(r, errorHandler(reference.error))
       ELSE [r EXCEPT !.pc = "lookup"]

\* a controller that extracts event and reference before it validates
ReceivedExtractsFirst(r) ==
    LET instance == getProviderInstance(r.provider)
        event == getEventFromWebhookRequest(r)
        reference == getReferenceFromWebhookRequest(r)
    IN IF instance.threw THEN Respond(r, errorHandler(instance.error))
       ELSE IF event.threw THEN Respond(r, errorHandler(event.error))
       ELSE IF reference.threw THEN Respond(r, errorHandler(reference.error))
       ELSE IF ~validateWebhookRequest(r) THEN Respond(r, 202)
       ELSE [r EXCEPT !.pc = "lookup"]

\* the request as received: registry lookup, validation and extraction run
\* without suspension up to the findOne of createWebhook
Received(r) ==
    LET instance == getProviderInstance(r.provider)
        event == getEventFromWebhookRequest(r)
        reference == getReferenceFromWebhookRequest(r)
    IN IF instance.threw THEN Respond(r, errorHandler(instance.error))
       ELSE IF ~validateWebhookRequest(r) THEN Respond(r, 202)
       ELSE IF event.threw THEN Respond(r, errorHandler(event.error))
       ELSE IF reference.threw THEN Respond(r, errorHandler(reference.error))
       ELSE [r EXCEPT !.pc = "lookup"]

DoneSlots == { j \in Slots : reqs[j].pc = "done" }

Receive(i) ==
    /\ reqs[i].pc = "idle"
    /\ IF i = 1 THEN TRUE ELSE reqs[i - 1].pc # "idle"
    /\ \E d \in Deliveries :
         reqs' = [reqs EXCEPT ![i] =
                    Received([IdleRequest EXCEPT
                                !.provider = d.provider, !.apiKey = d.apiKey,
                                !.event = d.event, !.dealId = d.dealId,
                                !.status = d.status, !.after = DoneSlots])]
    /\ UNCHANGED <<receipts, jobs, db>>

\* whether the controller calls handleWebhookRequest for the record
ShouldHandle(isNew, status) == isNew \/ status # PROCESSED

\* createWebhook resumes from findOne; with an existing record the
\* controller goes on to its status test
Lookup(i) ==
    LET r == reqs[i]
        id == findOne(receipts, r.provider,
                      getReferenceFromWebhookRequest(r).value)
    IN /\ r.pc = "lookup"
       /\ reqs' = [reqs EXCEPT ![i] =
            IF id = 0 THEN [r EXCEPT !.pc = "create"]
            ELSE LET found == [r EXCEPT !.webhook = id, !.isNew = FALSE,
                                        !.wstatus = receipts[id].status]
                 IN IF ShouldHandle(FALSE, receipts[id].status)
                    THEN [found EXCEPT !.pc = "handle"]
                    ELSE Respond(found, 200)]
       /\ UNCHANGED <<receipts, jobs, db>>

\* a controller that enqueues from the request and never stores the record
CreateSkipsPersist(i) ==
    LET r == reqs[i]
        data == JobDataOf(ReceiptAttributes(r.provider,
                            getEventFromWebhookRequest(r).value,
                            getReferenceFromWebhookRequest(r).value, r))
        result == enqueueCRMWebhookJob(jobs, data)
    IN /\ r.pc = "create"
       /\ jobs' = result.jobs
       /\ reqs' = [reqs EXCEPT ![i] = Respond(r, 200)]
       /\ UNCHANGED <<receipts, db>>

\* createWebhook resumes from create with the new record
Create(i) ==
    LET r == reqs[i]
    IN /\ r.pc = "create"
       /\ receipts' = create(receipts,
                        ReceiptAttributes(r.provider,
                            getEventFromWebhookRequest(r).value,
                            getReferenceFromWebhookRequest(r).value, r))
       /\ reqs' = [reqs EXCEPT ![i] =
                    [r EXCEPT !.webhook = Len(receipts) + 1, !.isNew = TRUE,
                              !.wstatus = PENDING, !.pc = "handle"]]
       /\ UNCHANGED <<jobs, db>>

\* CRMProvider.handleWebhookRequest(webhook): the enqueue, which the queue
\* backend may refuse (redisFails); an error is rethrown to the controller.
\* The request records what queue.add found under the job id.
Handle(i) ==
    LET r == reqs[i]
        result == enqueueCRMWebhookJob(jobs, JobDataOf(receipts[r.webhook]))
    IN /\ r.pc = "handle"
       /\ \E redisFails \in BOOLEAN :
            IF result.threw \/ redisFails
            THEN /\ reqs' = [reqs EXCEPT ![i] =
                        [r EXCEPT !.handled = TRUE, !.pc = "markFailed"]]
                 /\ UNCHANGED jobs
            ELSE /\ reqs' = [reqs EXCEPT ![i] =
                        [r EXCEPT !.handled = TRUE, !.jobId = result.jobId,
                                  !.found = JobStateOf(jobs, result.jobId),
                                  !.pc = "markProcessed"]]
                 /\ jobs' = result.jobs
       /\ UNCHANGED <<receipts, db>>

\* updateById(webhook._id, {status: PROCESSED}), then res.sendStatus(200)
MarkProcessed(i) ==
    /\ reqs[i].pc = "markProcessed"
    /\ receipts' = updateById(receipts, reqs[i].webhook, PROCESSED)
    /\ reqs' = [reqs EXCEPT ![i] = Respond(reqs[i], 200)]
    /\ UNCHANGED <<jobs, db>>

\* a catch block that passes the error on: next(error), no status update
MarkFailedRethrows(i) ==
    /\ reqs[i].pc = "markFailed"
    /\ reqs' = [reqs EXCEPT ![i] = Respond(reqs[i], errorHandler(TypeError))]
    /\ UNCHANGED <<receipts, jobs, db>>

\* updateById(webhook._id, {status: FAILED}), then res.sendStatus(200)
MarkFailed(i) ==
    /\ reqs[i].pc = "markFailed"
    /\ receipts' = updateById(receipts, reqs[i].webhook, FAILED)
    /\ reqs' = [reqs EXCEPT ![i] = Respond(reqs[i], 200)]
    /\ UNCHANGED <<jobs, db>>

-----------------------------------------------------------------------------
(* The worker *)

\* a worker that takes waiting jobs only and never promotes a delayed one
FetchWaitingOnly(k) ==
    /\ k <= Len(jobs)
    /\ jobs[k].state = "waiting"
    /\ Cardinality(ActiveJobs(jobs)) < Concurrency
    /\ jobs' = [jobs EXCEPT ![k] =
                  [@ EXCEPT !.state = "active", !.last = "none",
                            !.calls = <<>>]]
    /\ UNCHANGED <<reqs, receipts, db>>

\* the worker takes the next job while it runs fewer than Concurrency: a
\* waiting job, or a delayed job whose backoff delay has elapsed (the worker
\* promotes it when it fetches)
Fetch(k) ==
    /\ k <= Len(jobs)
    /\ jobs[k].state \in {"waiting", "delayed"}
    /\ Cardinality(ActiveJobs(jobs)) < Concurrency
    /\ jobs' = [jobs EXCEPT ![k] =
                  [@ EXCEPT !.state = "active", !.last = "none",
                            !.calls = <<>>]]
    /\ UNCHANGED <<reqs, receipts, db>>

\* one attempt of processCRMWebhook on an active job
Process(k) ==
    /\ k <= Len(jobs)
    /\ jobs[k].state = "active"
    /\ \E fault, metaFails, brevoFails \in BOOLEAN :
         /\ fault => TotalFaults(jobs) < MaxFaults
         /\ jobs' = [jobs EXCEPT ![k] =
                AfterAttempt(jobs[k], fault,
                    processCRMWebhook(jobs[k], fault, metaFails, brevoFails))]
    /\ UNCHANGED <<reqs, receipts, db>>

-----------------------------------------------------------------------------
(* The database connection: Database.connect *)

\* Database.maxRetryAttempts
maxRetryAttempts == 5

\* Database.retryInterval, in ms
retryInterval == 5000

\* getConnectionOptions: connectTimeoutMS and serverSelectionTimeoutMS
connectTimeoutMS == 10000

serverSelectionTimeoutMS == 5000

\* the time a failed mongoose.connect may have taken: an immediate error,
\* or one of the two timeouts
FailureDurations == {0, serverSelectionTimeoutMS, connectTimeoutMS}

\* the Database instance as constructed, with the position of the one call
\* of connect() the application makes, the number of mongoose.connect calls
\* made and the time spent so far
Database ==
    [pc |-> "idle", isConnecting |-> FALSE, connectionPromise |-> "null",
     connection |-> FALSE, retryAttempts |-> 0, calls |-> 0, elapsed |-> 0]

\* connect() up to its await: the early return when a connection attempt
\* is in flight, otherwise a new mongoose.connect
connectUntilAwait(d) ==
    IF d.isConnecting /\ d.connectionPromise # "null" THEN d
    ELSE [d EXCEPT !.isConnecting = TRUE, !.connectionPromise = "pending",
                   !.calls = @ + 1, !.pc = "connecting"]

\* a success that leaves the retry counter as it is
connectFulfilledKeepsCounter(d) ==
    [d EXCEPT !.connection = TRUE, !.connectionPromise = "fulfilled",
              !.isConnecting = FALSE, !.pc = "resolved"]

\* the try block after a successful await, then the finally block
connectFulfilled(d) ==
    [d EXCEPT !.connection = TRUE, !.connectionPromise = "fulfilled",
              !.retryAttempts = 0, !.isConnecting = FALSE, !.pc = "resolved"]

\* the catch block: a retry is scheduled while retryAttempts is below
\* maxRetryAttempts, otherwise the error is rethrown (and finally runs)
connectRejected(d, duration) ==
    IF d.retryAttempts < maxRetryAttempts
    THEN [d EXCEPT !.retryAttempts = @ + 1, !.isConnecting = FALSE,
                   !.connectionPromise = "null", !.pc = "waiting",
                   !.elapsed = @ + duration]
    ELSE [d EXCEPT !.connectionPromise = "rejected", !.isConnecting = FALSE,
                   !.pc = "rejected", !.elapsed = @ + duration]

\* the application calls db.connect() when it starts
Connect ==
    /\ db.pc = "idle"
    /\ db' = connectUntilAwait(db)
    /\ UNCHANGED <<reqs, receipts, jobs>>

\* mongoose.connect succeeded
ConnectFulfilled ==
    /\ db.pc = "connecting"
    /\ db' = connectFulfilled(db)
    /\ UNCHANGED <<reqs, receipts, jobs>>

\* mongoose.connect failed
ConnectRejected ==
    /\ db.pc = "connecting"
    /\ \E duration \in FailureDurations : db' = connectRejected(db, duration)
    /\ UNCHANGED <<reqs, receipts, jobs>>

\* the retry timer fires: return this.connect() runs the inner call up to
\* its await, then the finally block of the outer call resets isConnecting
RetryConnect ==
    /\ db.pc = "waiting"
    /\ db' = [connectUntilAwait([db EXCEPT !.elapsed = @ + retryInterval])
                EXCEPT !.isConnecting = FALSE]
    /\ UNCHANGED <<reqs, receipts, jobs>>

NextConnect ==
    \/ Connect
    \/ ConnectFulfilled
    \/ ConnectRejected
    \/ RetryConnect

-----------------------------------------------------------------------------
(* The specification *)

Init ==
    /\ reqs = [i \in Slots |-> IdleRequest]
    /\ receipts = <<>>
    /\ jobs = <<>>
    /\ db = Database

Gateway(i) ==
    \/ Receive(i)
    \/ Lookup(i)
    \/ Create(i)
    \/ Handle(i)
    \/ MarkProcessed(i)
    \/ MarkFailed(i)

Worker(k) ==
    \/ Fetch(k)
    \/ Process(k)

Next ==
    \/ \E i \in Slots : Gateway(i)
    \/ \E k \in JobSlots : Worker(k)

Spec == Init /\ [][Next]_vars

\* the worker runs for as long as the process lives: a job it can fetch is
\* fetched, and the processor of an active job returns or throws
FairSpec == Spec /\ \A k \in JobSlots : WF_vars(Worker(k))

\* the start of the application: the one call of Database.connect; the
\* timer fires and mongoose.connect settles within its timeouts
ConnectSpec == Init /\ [][NextConnect]_vars /\ WF_vars(NextConnect)

-----------------------------------------------------------------------------
(* Retention: removeOnComplete and removeOnFail *)

RemoveAt(q, k) == SubSeq(q, 1, k - 1) \o SubSeq(q, k + 1, Len(q))

\* the queue keeps the most recent completed and failed jobs and removes
\* the older ones; the later jobs that push a finished job out are the
\* queue's other traffic, so the removal of a finished job is a step of the
\* environment
Evict(k) ==
    /\ k <= Len(jobs)
    /\ jobs[k].state \in {"completed", "failed"}
    /\ jobs' = RemoveAt(jobs, k)
    /\ UNCHANGED <<reqs, receipts, db>>

NextRetention ==
    \/ Next
    \/ \E k \in JobSlots : Evict(k)

RetentionSpec == Init /\ [][NextRetention]_vars

-----------------------------------------------------------------------------
(* Helpers of the properties *)

ReceiptIds == 1..Len(receipts)

JobIndexes == 1..Len(jobs)

\* the job data the enqueue of request i is (or would be) called with
DataOfDelivery(i) ==
    [reference |-> reqs[i].dealId, event |-> reqs[i].event,
     status |-> reqs[i].status]

\* a delivery that passes registry lookup, validation and extraction
Accepted(i) ==
    /\ reqs[i].pc # "idle"
    /\ reqs[i].provider \in providerInstances
    /\ reqs[i].apiKey = ConfiguredApiKey
    /\ ~Falsy(reqs[i].event)
    /\ ~Falsy(reqs[i].dealId)

\* the request has touched neither the Receipt store nor the queue
Inert(i) ==
    /\ reqs[i].pc = "done"
    /\ reqs[i].webhook = 0
    /\ ~reqs[i].handled
    /\ reqs[i].jobId = NoJobId

\* no request is in flight and every job has reached a terminal state
Quiescent ==
    /\ \A i \in Slots : reqs[i].pc \in {"idle", "done"}
    /\ \A k \in JobIndexes : jobs[k].state \in {"completed", "failed"}

-----------------------------------------------------------------------------
(* C1 *)

\* C1: for any two deliveries with the same (source, reference), also
\* when their createWebhook calls interleave, the Receipt store holds
\* exactly one Receipt for that (source, reference).
C1_OneReceiptPerReference ==
    \A a, b \in ReceiptIds :
        (/\ receipts[a].provider = receipts[b].provider
         /\ receipts[a].reference = receipts[b].reference) => a = b

-----------------------------------------------------------------------------
(* C2 *)

\* C2: when a reference is delivered with status Qualified and, after that
\* delivery was answered, delivered again with status Committed, once both
\* are answered the queue holds two separate Jobs with different keys, one
\* for each delivery (so that both can execute).
C2_TransitionsEnqueueSeparateJobs ==
    \A i, j \in Slots :
        (/\ Accepted(i) /\ Accepted(j)
         /\ reqs[i].pc = "done" /\ reqs[j].pc = "done"
         /\ i \in reqs[j].after
         /\ reqs[i].dealId = reqs[j].dealId
         /\ reqs[i].status = Qualified /\ reqs[j].status = Committed)
        => /\ HasJob(jobs, JobIdOf(DataOfDelivery(i)))
           /\ HasJob(jobs, JobIdOf(DataOfDelivery(j)))
           /\ JobIdOf(DataOfDelivery(i)) # JobIdOf(DataOfDelivery(j))

-----------------------------------------------------------------------------
(* C3 *)

\* C3: enqueue calls with the same (event, reference, deal status) yield one
\* Job: the queue never holds two Jobs with the same id (a repeated call
\* adds none, the depth does not grow), and the id every call returned is
\* the id of the Job in the queue.
C3_EnqueueCoalesces ==
    /\ \A a, b \in JobIndexes : jobs[a].id = jobs[b].id => a = b
    /\ \A i \in Slots :
         reqs[i].jobId # NoJobId =>
            \E k \in JobIndexes :
                /\ jobs[k].id = reqs[i].jobId
                /\ jobs[k].id = JobIdOf(JobDataOf(receipts[reqs[i].webhook]))

\* two requests enqueued the same (event, reference, status) while the Job
\* was still queued or in flight, and the queue holds that one Job
C3_Witness ==
    \E i, j \in Slots :
        /\ i # j
        /\ reqs[i].jobId # NoJobId
        /\ reqs[i].jobId = reqs[j].jobId
        /\ JobDataOf(receipts[reqs[i].webhook])
             = JobDataOf(receipts[reqs[j].webhook])
        /\ Len(jobs) = 1
        /\ jobs[1].state \in {"waiting", "active", "delayed"}

-----------------------------------------------------------------------------
(* C4 *)

\* C4: a delivery for a (source, reference) whose Receipt is already
\* PROCESSED is still run through handleWebhookRequest (and creates no
\* second Receipt).
C4_ProcessedReceiptStillHandled ==
    \A i \in Slots :
        (/\ reqs[i].pc = "done"
         /\ reqs[i].webhook # 0
         /\ ~reqs[i].isNew
         /\ reqs[i].wstatus = PROCESSED) => reqs[i].handled

-----------------------------------------------------------------------------
(* C5 *)

\* C5: while a Job of a Receipt is still waiting, delayed or active, the
\* Receipt is not PROCESSED (only the Worker, after the processor has
\* completed, sets PROCESSED).
C5_ProcessedOnlyAfterJobCompleted ==
    \A r \in ReceiptIds, k \in JobIndexes :
        (/\ jobs[k].reference = receipts[r].reference
         /\ jobs[k].state \in {"waiting", "delayed", "active"})
        => receipts[r].status # PROCESSED

-----------------------------------------------------------------------------
(* C6 *)

\* C6: an attempt of a Committed Job in which the processor itself raises
\* nothing completes the Job whatever dispatcher calls failed, and both
\* dispatchers were invoked: tracking conversion, then notification.
C6_DispatcherFailuresIsolated ==
    \A k \in JobIndexes :
        (/\ jobs[k].status = Committed
         /\ jobs[k].event \in {deal_created, deal_updated}
         /\ jobs[k].last = "ran")
        => /\ jobs[k].state = "completed"
           /\ Len(jobs[k].calls) = 2
           /\ jobs[k].calls[1].dispatcher = "meta"
           /\ jobs[k].calls[2].dispatcher = "brevo"

\* a Committed Job completed on its first attempt although exactly one of
\* its two dispatcher calls failed
C6_Witness ==
    \E k \in JobIndexes :
        /\ jobs[k].status = Committed
        /\ jobs[k].state = "completed"
        /\ jobs[k].attemptsMade = 1
        /\ Len(jobs[k].calls) = 2
        /\ jobs[k].calls[1].ok # jobs[k].calls[2].ok

-----------------------------------------------------------------------------
(* C7 *)

\* C7: a CRM Job is attempted at most 5 times; it is failed for good only
\* after exactly 5 attempts and is not attempted after that; the backoff
\* delays before its retries are 5000, 10000, 20000, 40000 ms, each
\* strictly larger than the one before.
C7_RetryThenFail ==
    \A k \in JobIndexes :
        /\ jobs[k].attemptsMade <= CrmAttempts
        /\ jobs[k].state = "active" => jobs[k].attemptsMade < CrmAttempts
        /\ jobs[k].state = "failed" =>
              /\ jobs[k].attemptsMade = CrmAttempts
              /\ Len(jobs[k].delays) = CrmAttempts - 1
        /\ jobs[k].state = "delayed" =>
              Len(jobs[k].delays) = jobs[k].attemptsMade
        /\ \A n \in 1..Len(jobs[k].delays) :
              /\ jobs[k].delays[n] = CrmBackoffDelay * Pow2(n - 1)
              /\ n > 1 => jobs[k].delays[n] > jobs[k].delays[n - 1]

\* a Job failed for good after five attempts with doubling delays
C7_Witness ==
    \E k \in JobIndexes :
        /\ jobs[k].state = "failed"
        /\ jobs[k].attemptsMade = 5
        /\ jobs[k].delays = <<5000, 10000, 20000, 40000>>

-----------------------------------------------------------------------------
(* C8 *)

\* C8: when a Job has exhausted its attempts, the Receipt of its
\* (source, reference) is set to FAILED; stated on the states in which
\* nothing is left to run.
C8_ExhaustedJobFailsReceipt ==
    Quiescent =>
        \A k \in JobIndexes, r \in ReceiptIds :
            (/\ jobs[k].state = "failed"
             /\ receipts[r].reference = jobs[k].reference)
            => receipts[r].status = FAILED

-----------------------------------------------------------------------------
(* C9 *)

\* C9: a delivery to the CRM source whose x-api-key is not the configured
\* secret is answered 202 and has created no Receipt, called no handle and
\* enqueued no Job.
C9_AuthRejectionInert ==
    \A i \in Slots :
        (/\ reqs[i].pc # "idle"
         /\ reqs[i].provider \in providerInstances
         /\ reqs[i].apiKey # ConfiguredApiKey)
        => /\ Inert(i)
           /\ reqs[i].resp = 202

\* a delivery with a wrong key and otherwise complete fields was answered
C9_Witness ==
    \E i \in Slots :
        /\ reqs[i].pc = "done"
        /\ reqs[i].provider \in providerInstances
        /\ reqs[i].apiKey # ConfiguredApiKey
        /\ ~Falsy(reqs[i].event) /\ ~Falsy(reqs[i].dealId)
        /\ reqs[i].resp = 202

-----------------------------------------------------------------------------
(* C10 *)

\* C10: an authenticated delivery to the CRM source without its reference
\* (body.data.dealId) or without its event (x-event) is answered 400 and
\* has created no Receipt, called no handle and enqueued no Job.
C10_MissingFieldRejected ==
    \A i \in Slots :
        (/\ reqs[i].pc # "idle"
         /\ reqs[i].provider \in providerInstances
         /\ reqs[i].apiKey = ConfiguredApiKey
         /\ (Falsy(reqs[i].event) \/ Falsy(reqs[i].dealId)))
        => /\ Inert(i)
           /\ reqs[i].resp = 400

\* both cases were answered: one delivery lacked the reference, one the event
C10_Witness ==
    \E i, j \in Slots :
        /\ reqs[i].pc = "done" /\ reqs[j].pc = "done"
        /\ reqs[i].apiKey = ConfiguredApiKey
        /\ reqs[j].apiKey = ConfiguredApiKey
        /\ Falsy(reqs[i].dealId) /\ ~Falsy(reqs[i].event)
        /\ Falsy(reqs[j].event) /\ ~Falsy(reqs[j].dealId)
        /\ reqs[i].resp = 400 /\ reqs[j].resp = 400

-----------------------------------------------------------------------------
(* C11 *)

\* the requests that called handleWebhookRequest on the Receipt of request i
HandlersOf(i) ==
    { j \in Slots : reqs[j].webhook = reqs[i].webhook /\ reqs[j].handled }

\* handleWebhookRequest raised for request i: it was called and returned no
\* job id
HandleRaised(i) == reqs[i].handled /\ reqs[i].jobId = NoJobId

\* C11: a request that has its Receipt is answered 200 whatever handle did,
\* never with an error status; and when handleWebhookRequest raised, the
\* answered request has left the Receipt FAILED (as long as no other request
\* handled the same Receipt).
C11_HandleErrorContained ==
    \A i \in Slots :
        (reqs[i].pc = "done" /\ reqs[i].webhook # 0)
        => /\ reqs[i].resp = 200
           /\ (HandleRaised(i) /\ HandlersOf(i) = {i})
                 => receipts[reqs[i].webhook].status = FAILED

\* the enqueue of a complete delivery was refused by the queue backend, and
\* the request was answered 200 with its Receipt FAILED
C11_Witness ==
    \E i \in Slots :
        /\ reqs[i].pc = "done"
        /\ reqs[i].status # Undefined
        /\ HandleRaised(i)
        /\ reqs[i].resp = 200
        /\ receipts[reqs[i].webhook].status = FAILED

-----------------------------------------------------------------------------
(* C12 *)

\* request j is the latest delivery: every other delivery was answered
\* before j arrived
Latest(j) == \A i \in Slots \ {j} : reqs[i].pc = "idle" \/ i \in reqs[j].after

\* C12: once the latest delivery for a (source, reference) that already had
\* a Receipt is answered, that Receipt stores the event and the payload of
\* this delivery, and it is the only Receipt of the reference.
C12_RepeatedDeliveryUpdatesReceipt ==
    \A j \in Slots :
        (/\ reqs[j].pc = "done"
         /\ reqs[j].webhook # 0
         /\ ~reqs[j].isNew
         /\ Latest(j))
        => /\ receipts[reqs[j].webhook].event = reqs[j].event
           /\ receipts[reqs[j].webhook].payloadStatus = reqs[j].status
           /\ \A r \in ReceiptIds :
                 (/\ receipts[r].provider = reqs[j].provider
                  /\ receipts[r].reference = reqs[j].dealId)
                 => r = reqs[j].webhook

-----------------------------------------------------------------------------
(* C13 *)

\* how many times a sequence of dispatcher calls invokes dispatcher d
CountOf(calls, d) ==
    Cardinality({ n \in 1..Len(calls) : calls[n].dispatcher = d })

\* the job's event and status have a case in the processor
Recognised(job) ==
    /\ job.event \in {deal_created, deal_updated}
    /\ job.status \in {Qualified, Committed}

\* C13: an execution of processCRMWebhook (for a deal_created or
\* deal_updated Job) with status Qualified invokes the tracking-conversion
\* dispatcher exactly once and the notification dispatcher not at all; with
\* status Committed it invokes each of the two exactly once.
C13_DispatchersPerStatus ==
    \A k \in JobIndexes :
        (jobs[k].last = "ran" /\ jobs[k].event \in {deal_created, deal_updated})
        => /\ jobs[k].status = Qualified =>
                /\ CountOf(jobs[k].calls, "meta") = 1
                /\ CountOf(jobs[k].calls, "brevo") = 0
           /\ jobs[k].status = Committed =>
                /\ CountOf(jobs[k].calls, "meta") = 1
                /\ CountOf(jobs[k].calls, "brevo") = 1

\* a Qualified Job and a Committed Job have both been executed
C13_Witness ==
    \E a, b \in JobIndexes :
        /\ jobs[a].status = Qualified /\ jobs[a].last = "ran"
        /\ jobs[a].calls = <<Call("meta", TRUE)>>
        /\ jobs[b].status = Committed /\ jobs[b].last = "ran"
        /\ Len(jobs[b].calls) = 2

-----------------------------------------------------------------------------
(* C14 *)

DispatcherSet(calls) == { calls[n].dispatcher : n \in 1..Len(calls) }

\* C14: the dispatchers an executed deal_created or deal_updated Job
\* invoked are those processCRMWebhook invokes for the same status under
\* either event type, whatever the downstream services answer.
C14_EventTypeIrrelevant ==
    \A k \in JobIndexes :
        (jobs[k].last = "ran" /\ jobs[k].event \in {deal_created, deal_updated})
        => \A e \in {deal_created, deal_updated} :
             \A metaFails, brevoFails \in BOOLEAN :
                DispatcherSet(processCRMWebhook([jobs[k] EXCEPT !.event = e],
                                  FALSE, metaFails, brevoFails).calls)
                  = DispatcherSet(jobs[k].calls)

\* a deal_updated Job with status Committed was executed and invoked both
\* dispatchers
C14_Witness ==
    \E k \in JobIndexes :
        /\ jobs[k].event = deal_updated
        /\ jobs[k].status = Committed
        /\ jobs[k].last = "ran"
        /\ DispatcherSet(jobs[k].calls) = {"meta", "brevo"}

-----------------------------------------------------------------------------
(* C15 *)

\* C15: for a Job whose event type is not recognised or whose status is
\* neither Qualified nor Committed, processCRMWebhook invokes no dispatcher
\* and does not throw; the attempt that runs it completes the Job, so that
\* a Job with no failed attempt behind it completes on its first attempt
\* and no retry is scheduled.
C15_UnrecognisedIsNoOp ==
    \A k \in JobIndexes :
        ~Recognised(jobs[k])
        => /\ jobs[k].calls = <<>>
           /\ \A metaFails, brevoFails \in BOOLEAN :
                processCRMWebhook(jobs[k], FALSE, metaFails, brevoFails)
                    = Outcome(FALSE, <<>>)
           /\ jobs[k].last = "ran" => jobs[k].state = "completed"
           /\ (jobs[k].attemptsMade >= 1 /\ jobs[k].delays = <<>>)
                 => /\ jobs[k].state = "completed"
                    /\ jobs[k].attemptsMade = 1

\* a Job of an unknown event type and a Job of an unknown status have both
\* completed on their first attempt
C15_Witness ==
    \E a, b \in JobIndexes :
        /\ jobs[a].event = deal_deleted
        /\ jobs[b].event = deal_created /\ jobs[b].status = qualified
        /\ \A k \in {a, b} :
             /\ jobs[k].state = "completed"
             /\ jobs[k].attemptsMade = 1
             /\ jobs[k].calls = <<>>

-----------------------------------------------------------------------------
(* C16 *)

\* the data request i passed to enqueueCRMWebhookJob
EnqueuedData(i) == JobDataOf(receipts[reqs[i].webhook])

\* C16: two enqueue calls whose data have the same (event, reference, deal
\* status) got the same Job key, whichever Receipt the data came from,
\* whenever the calls were made and whatever the queue held at the time;
\* and both keys are the key of one and the same Job of the queue.
C16_KeyDeterministic ==
    \A i, j \in Slots :
        (/\ reqs[i].jobId # NoJobId
         /\ reqs[j].jobId # NoJobId
         /\ EnqueuedData(i) = EnqueuedData(j))
        => /\ reqs[i].jobId = reqs[j].jobId
           /\ Cardinality({ k \in JobIndexes : jobs[k].id = reqs[i].jobId }) = 1

\* two requests enqueued the same triple from two different Receipt
\* records, one when the queue had no Job of that key and one when the Job
\* had already completed, and got the same key
C16_Witness ==
    \E i, j \in Slots :
        /\ reqs[i].webhook # reqs[j].webhook
        /\ reqs[i].jobId # NoJobId
        /\ reqs[i].jobId = reqs[j].jobId
        /\ EnqueuedData(i) = EnqueuedData(j)
        /\ reqs[i].found = "none"
        /\ reqs[j].found = "completed"

-----------------------------------------------------------------------------
(* C17 *)

CompletedJobOf(q, id) ==
    \E k \in 1..Len(q) : q[k].id = id /\ q[k].state = "completed"

NoJobOf(q, id) == \A k \in 1..Len(q) : q[k].id # id

\* C17: an enqueue whose key is that of a completed Job still in the queue
\* leaves the queue as it is (no new Job), and a completed Job is never
\* changed again except by its removal (no new execution); an enqueue whose
\* key is no longer in the queue, also after the removal of the completed
\* Job, appends a fresh waiting Job with no attempt made.
C17_RetainedCompletedDeduplicates ==
    [][ /\ \A i \in Slots :
             (reqs[i].pc = "handle" /\ reqs'[i].pc = "markProcessed")
             => /\ CompletedJobOf(jobs, reqs'[i].jobId) => jobs' = jobs
                /\ NoJobOf(jobs, reqs'[i].jobId)
                     => /\ Len(jobs') = Len(jobs) + 1
                        /\ SubSeq(jobs', 1, Len(jobs)) = jobs
                        /\ jobs'[Len(jobs')].id = reqs'[i].jobId
                        /\ jobs'[Len(jobs')].state = "waiting"
                        /\ jobs'[Len(jobs')].attemptsMade = 0
        /\ \A k \in 1..Len(jobs) :
             jobs[k].state = "completed"
             => \A m \in 1..Len(jobs') :
                  jobs'[m].id = jobs[k].id => jobs'[m] = jobs[k]
      ]_vars

\* a request enqueued the key of a Job that had completed and was still in
\* the queue: the queue holds that one Job, completed after its one attempt
C17_Witness ==
    \E i, j \in Slots :
        /\ i # j
        /\ reqs[i].found = "none"
        /\ reqs[j].found = "completed"
        /\ reqs[j].jobId = reqs[i].jobId
        /\ reqs[j].pc = "done"
        /\ Len(jobs) = 1
        /\ jobs[1].id = reqs[j].jobId
        /\ jobs[1].state = "completed"
        /\ jobs[1].attemptsMade = 1

-----------------------------------------------------------------------------
(* C18 *)

-----------------------------------------------------------------------------
(* C19 *)

\* C19: a request answered 200 holds a Receipt, and that Receipt is in the
\* store under the (source, reference) of the delivery.
C19_OkImpliesReceipt ==
    \A i \in Slots :
        (reqs[i].pc = "done" /\ reqs[i].resp = 200)
        => /\ reqs[i].webhook \in ReceiptIds
           /\ receipts[reqs[i].webhook].provider = reqs[i].provider
           /\ receipts[reqs[i].webhook].reference = reqs[i].dealId

\* every way to a 200 was taken: one request created its Receipt and
\* enqueued, the other found the Receipt PROCESSED and did nothing more
C19_Witness ==
    \E i, j \in Slots :
        /\ reqs[i].pc = "done" /\ reqs[i].resp = 200 /\ reqs[i].isNew
        /\ reqs[j].pc = "done" /\ reqs[j].resp = 200 /\ ~reqs[j].isNew
        /\ ~reqs[j].handled
        /\ reqs[j].webhook = reqs[i].webhook

-----------------------------------------------------------------------------
(* C20 *)

Terminal(k) ==
    /\ k <= Len(jobs)
    /\ jobs[k].state \in {"completed", "failed"}

-----------------------------------------------------------------------------
(* C21 *)

\* C21: the data a request passed to the enqueue are the event, the
\* reference and the business status of its own delivery.
C21_JobCarriesOwnDelivery ==
    \A i \in Slots :
        reqs[i].jobId # NoJobId => EnqueuedData(i) = DataOfDelivery(i)

-----------------------------------------------------------------------------
(* C22 *)

\* request i has written PROCESSED to its Receipt and has been answered
WroteProcessed(i) ==
    /\ reqs[i].pc = "done"
    /\ reqs[i].handled
    /\ reqs[i].jobId # NoJobId

\* C22: a Receipt to which a request has written PROCESSED is PROCESSED:
\* no other delivery for the same (source, reference) sets it to FAILED or
\* PENDING afterwards. (A FAILED written before the PROCESSED is
\* overwritten by it, so a Receipt found FAILED here was set so later.)
C22_ProcessedIsFinal ==
    \A i \in Slots :
        WroteProcessed(i) => receipts[reqs[i].webhook].status = PROCESSED

-----------------------------------------------------------------------------
(* C23 *)

\* the dispatchers processCRMWebhook invokes for the given job data
ActionsOf(data) ==
    DispatcherSet(processCRMWebhook(data, FALSE, FALSE, FALSE).calls)

\* C23: two enqueue calls that got the same Job key have data for which
\* the Event Processor invokes the same dispatchers.
C23_EqualKeysSameActions ==
    \A i, j \in Slots :
        (reqs[i].jobId # NoJobId /\ reqs[i].jobId = reqs[j].jobId)
        => ActionsOf(EnqueuedData(i)) = ActionsOf(EnqueuedData(j))

-----------------------------------------------------------------------------
(* C24 *)

\* C24: two enqueue calls that got the same Job key were made with the
\* same (event, reference, status).
C24_KeyInjective ==
    \A i, j \in Slots :
        (reqs[i].jobId # NoJobId /\ reqs[i].jobId = reqs[j].jobId)
        => EnqueuedData(i) = EnqueuedData(j)

-----------------------------------------------------------------------------
(* C25 *)

\* C25: a delivery to the CRM source with an invalid credential and with
\* its event or its reference missing is answered 202, not 400.
C25_AuthBeforeExtraction ==
    \A i \in Slots :
        (/\ reqs[i].pc # "idle"
         /\ reqs[i].provider \in providerInstances
         /\ reqs[i].apiKey # ConfiguredApiKey
         /\ (Falsy(reqs[i].event) \/ Falsy(reqs[i].dealId)))
        => /\ reqs[i].pc = "done"
           /\ reqs[i].resp = 202
           /\ reqs[i].resp # errorHandler(BadRequestError)

\* a delivery with a wrong key and neither event nor reference was answered
C25_Witness ==
    \E i \in Slots :
        /\ reqs[i].pc = "done"
        /\ reqs[i].provider \in providerInstances
        /\ reqs[i].apiKey # ConfiguredApiKey
        /\ Falsy(reqs[i].event) /\ Falsy(reqs[i].dealId)
        /\ reqs[i].resp = 202

-----------------------------------------------------------------------------
(* C26 *)

\* C26: every Job in the queue has a Receipt of the CRM source for its
\* reference in the store.
C26_PersistBeforeEnqueue ==
    \A k \in JobIndexes :
        \E r \in ReceiptIds :
            /\ receipts[r].reference = jobs[k].reference
            /\ receipts[r].provider \in providerInstances

\* a Job is waiting while the Receipt of its reference is still PENDING:
\* the record was stored, then the Job enqueued
C26_Witness ==
    \E k \in JobIndexes, r \in ReceiptIds :
        /\ jobs[k].state = "waiting"
        /\ receipts[r].reference = jobs[k].reference
        /\ receipts[r].status = PENDING
        /\ \E i \in Slots : reqs[i].webhook = r /\ reqs[i].pc = "markProcessed"

-----------------------------------------------------------------------------
(* C27 *)

\* C27: an authenticated delivery with event and reference and no business
\* status that created its Receipt has, once answered, enqueued no Job,
\* left that Receipt FAILED and got 200.
C27_MissingStatusFails ==
    \A i \in Slots :
        (/\ Accepted(i)
         /\ reqs[i].status = Undefined
         /\ reqs[i].isNew
         /\ reqs[i].pc = "done")
        => /\ reqs[i].handled
           /\ reqs[i].jobId = NoJobId
           /\ \A k \in JobIndexes : jobs[k].status # Undefined
           /\ receipts[reqs[i].webhook].status = FAILED
           /\ reqs[i].resp = 200

\* the delivery without status was the only one: one FAILED Receipt, an
\* empty queue, answer 200
C27_Witness ==
    \E i \in Slots :
        /\ Accepted(i)
        /\ reqs[i].status = Undefined
        /\ reqs[i].isNew
        /\ reqs[i].pc = "done"
        /\ reqs[i].resp = 200
        /\ Len(receipts) = 1
        /\ receipts[1].status = FAILED
        /\ jobs = <<>>

-----------------------------------------------------------------------------
(* C28 *)

-----------------------------------------------------------------------------
(* C29 *)

\* C29: in an execution of a Committed Job every customer-notification
\* call comes after the tracking-conversion call in the order of issue,
\* and it is issued whether the conversion call succeeded or failed.
C29_ConversionBeforeNotification ==
    \A k \in JobIndexes :
        (/\ jobs[k].status = Committed
         /\ jobs[k].event \in {deal_created, deal_updated}
         /\ jobs[k].last = "ran")
        => /\ \A n, m \in 1..Len(jobs[k].calls) :
                (/\ jobs[k].calls[n].dispatcher = "brevo"
                 /\ jobs[k].calls[m].dispatcher = "meta") => m < n
           /\ \E n \in 1..Len(jobs[k].calls) :
                jobs[k].calls[n].dispatcher = "brevo"

\* the notification call was issued after a conversion call that failed
C29_Witness ==
    \E k \in JobIndexes :
        /\ jobs[k].status = Committed
        /\ jobs[k].last = "ran"
        /\ jobs[k].calls = <<Call("meta", FALSE), Call("brevo", TRUE)>>

-----------------------------------------------------------------------------
(* C30 *)

Settled == db.pc \in {"resolved", "rejected"}

\* the bounds of one call of connect(): at most maxRetryAttempts retries
\* after the first attempt; resolved means connected with the counter back
\* at 0; rejected means that all retries were used; and the time spent is
\* bounded by the timeouts and the retry intervals
ConnectBounded ==
    /\ db.retryAttempts \in 0..maxRetryAttempts
    /\ db.calls <= maxRetryAttempts + 1
    /\ db.pc = "resolved" => db.connection /\ db.retryAttempts = 0
    /\ db.pc = "rejected" =>
          /\ ~db.connection
          /\ db.retryAttempts = maxRetryAttempts
          /\ db.calls = maxRetryAttempts + 1
    /\ db.elapsed <= (maxRetryAttempts + 1) * connectTimeoutMS
                        + maxRetryAttempts * retryInterval

\* C30: Database.connect() terminates: it resolves after a successful
\* connection with the retry counter reset to 0, or rejects after at most
\* maxRetryAttempts (5) retries that follow the first failed attempt; the
\* number of attempts is bounded.
C30_ConnectTerminates == []ConnectBounded /\ <>[]Settled

\* connect() resolved on its last retry: six attempts, counter back at 0
C30_Witness ==
    /\ db.pc = "resolved"
    /\ db.calls = maxRetryAttempts + 1
    /\ db.retryAttempts = 0

====
